---- MODULE Spec2Model ----
(***************************************************************************)
(* Model of the compute-fractal render plugin (src/src/fractal_system.rs): *)
(* the main world holds entities carrying a ComputeFractalComponent and a  *)
(* ComputedVisibility; every frame the render sub-app runs the Extract     *)
(* stage (extract_fractals), the Prepare stage (image assets become        *)
(* RenderAssets<Image>) and the Queue stage (queue_fractals), in that      *)
(* order, after the main world's update.                                   *)
(***************************************************************************)
EXTENDS Integers, Sequences, FiniteSets, TLC

VARIABLES
    world,              \* main world: the query's rows, in iteration order
    next_entity,        \* next Entity id the main world allocates
    shader_ok,          \* whether shaders/fractal_system.wgsl loads and compiles
    pipeline_cache,     \* PipelineCache: the queued compute pipeline descriptors
    pipeline,           \* ComputeFractalPipeline resource: {} or {resource}
    extracted_fractals, \* ExtractedFractals.fractals
    gpu_images,         \* RenderAssets<Image>: the handles with a GpuImage
    bind_groups,        \* ComputeFractalBindGroups resource of the render world
    pc                  \* position in the app's schedule

vars == <<world, next_entity, shader_ok, pipeline_cache, pipeline,
          extracted_fractals, gpu_images, bind_groups, pc>>

\* Most entities the main world ever spawns.
MaxEntities == 2

\* The Handle<Image> values in use.
Handles == {"image_a", "image_b"}

\* FractalType::Julia(c_re, c_im), the constants in hundredths.
Julia(re, im) == <<"Julia", re, im>>

\* The (fractal_type, iterations) pairs the main world writes.
FractalSettings == {<<Julia(-45, 55), 100>>, <<Julia(0, 0), 0>>}

ComputeFractalComponent(fractal_type, iterations, output) ==
    [fractal_type |-> fractal_type, iterations |-> iterations, output |-> output]

Components ==
    {ComputeFractalComponent(s[1], s[2], o) : s \in FractalSettings, o \in Handles}

\* One row of Query<(Entity, &ComputeFractalComponent, &ComputedVisibility)>.
QueryRow(entity, fractal, visibility) ==
    [entity |-> entity, fractal |-> fractal, visibility |-> visibility]

\* A bug the copy could have: the iteration count is not taken from the component.
ExtractedFractal_FixedIterations(entity, fractal) ==
    [entity |-> entity,
     fractal_type |-> fractal.fractal_type,
     iterations |-> 100,
     output |-> fractal.output]

\* The copy extract_fractals pushes for one visible row.
ExtractedFractal(entity, fractal) ==
    [entity |-> entity,
     fractal_type |-> fractal.fractal_type,
     iterations |-> fractal.iterations,
     output |-> fractal.output]

\* The bind group layout created in from_world.
TextureBindGroupLayout ==
    [label |-> "compute_fractal_texture_layout",
     binding |-> 0,
     visibility |-> "COMPUTE",
     access |-> "ReadWrite",
     format |-> "Rgba8Unorm",
     view_dimension |-> "D2"]

\* The descriptor from_world queues on the pipeline cache.
JuliaPipelineDescriptor(layout) ==
    [label |-> "julia_fractal_pipeline",
     layout |-> layout,
     shader |-> "shaders/fractal_system.wgsl",
     entry_point |-> "julia"]

\* GpuImage.texture_view of the image a handle designates.
TextureView(handle) == [image |-> handle]

\* A bug the bind group could have: the view is bound at slot 1.
BindGroup_Slot1(layout, view) ==
    [layout |-> layout, binding |-> 1, resource |-> view]

\* render_device.create_bind_group for one fractal.
BindGroup(layout, view) ==
    [layout |-> layout, binding |-> 0, resource |-> view]

----
\* HashMap<Entity, BindGroup> as a set of key/value pairs.

Keys(m) == {p.key : p \in m}

\* A bug the map could have: an insert drops the other keys.
insert_DropsOthers(m, k, v) == {[key |-> k, value |-> v]}

insert(m, k, v) == {p \in m : p.key # k} \cup {[key |-> k, value |-> v]}

----
\* A bug the clear could have: the last frame's fractals are kept.
clear_KeepsOld(fractals) == fractals

\* extracted_fractals.fractals.clear().
clear(fractals) == <<>>

\* A bug the extract loop could have: the visibility test is missing.
RECURSIVE ExtractLoop_NoVisibilityTest(_, _)
ExtractLoop_NoVisibilityTest(rows, fractals) ==
    IF rows = <<>> THEN fractals
    ELSE ExtractLoop_NoVisibilityTest(
            Tail(rows),
            Append(fractals, [entity |-> Head(rows).entity,
                              fractal_type |-> Head(rows).fractal.fractal_type,
                              iterations |-> Head(rows).fractal.iterations,
                              output |-> Head(rows).fractal.output]))

\* A bug the extract loop could have: a visible row is put in front of the
\* fractals already pushed.
RECURSIVE ExtractLoop_PushFront(_, _)
ExtractLoop_PushFront(rows, fractals) ==
    IF rows = <<>> THEN fractals
    ELSE IF ~Head(rows).visibility
         THEN ExtractLoop_PushFront(Tail(rows), fractals)
         ELSE ExtractLoop_PushFront(
                 Tail(rows),
                 <<[entity |-> Head(rows).entity,
                    fractal_type |-> Head(rows).fractal.fractal_type,
                    iterations |-> Head(rows).fractal.iterations,
                    output |-> Head(rows).fractal.output]>> \o fractals)

\* A bug the extract loop could have: a visible row is pushed twice.
RECURSIVE ExtractLoop_PushesTwice(_, _)
ExtractLoop_PushesTwice(rows, fractals) ==
    IF rows = <<>> THEN fractals
    ELSE IF ~Head(rows).visibility
         THEN ExtractLoop_PushesTwice(Tail(rows), fractals)
         ELSE ExtractLoop_PushesTwice(
                 Tail(rows),
                 fractals \o <<[entity |-> Head(rows).entity,
                                fractal_type |-> Head(rows).fractal.fractal_type,
                                iterations |-> Head(rows).fractal.iterations,
                                output |-> Head(rows).fractal.output],
                               [entity |-> Head(rows).entity,
                                fractal_type |-> Head(rows).fractal.fractal_type,
                                iterations |-> Head(rows).fractal.iterations,
                                output |-> Head(rows).fractal.output]>>)

\* The extract loop: push the visible rows of the query, in iteration order.
RECURSIVE ExtractLoop(_, _)
ExtractLoop(rows, fractals) ==
    IF rows = <<>> THEN fractals
    ELSE IF ~Head(rows).visibility
         THEN ExtractLoop(Tail(rows), fractals)
         ELSE ExtractLoop(
                 Tail(rows),
                 Append(fractals, ExtractedFractal(Head(rows).entity, Head(rows).fractal)))

\* Whether gpu_images[&fractal.output] finds an image for every fractal.
AllResolve(fractals, images) ==
    \A i \in DOMAIN fractals : fractals[i].output \in images

\* A bug the queue loop could have: the view is looked up once, for the first
\* fractal, and bound for all of them.
QueueBindGroups_FirstView(fractals, layout, acc) ==
    acc \cup {[key |-> fractals[i].entity,
               value |-> BindGroup(layout, TextureView(fractals[1].output))]
              : i \in DOMAIN fractals}

\* The queue loop: one bind group per extracted fractal, keyed by entity.
RECURSIVE QueueBindGroups(_, _, _)
QueueBindGroups(fractals, layout, acc) ==
    IF fractals = <<>> THEN acc
    ELSE QueueBindGroups(
            Tail(fractals), layout,
            insert(acc, Head(fractals).entity,
                   BindGroup(layout, TextureView(Head(fractals).output))))

----
Init ==
    /\ world = <<>>
    /\ next_entity = 1
    /\ shader_ok \in BOOLEAN
    /\ pipeline_cache = <<>>
    /\ pipeline = {}
    /\ extracted_fractals = <<>>
    /\ gpu_images = {}
    /\ bind_groups = [inserted |-> FALSE, values |-> {}]
    /\ pc = "Build"

\* ComputeFractalPipeline::from_world: create the layout, load the shader,
\* queue the julia pipeline; the handle is returned whatever the shader is.
from_world ==
    /\ pipeline_cache' =
          Append(pipeline_cache, JuliaPipelineDescriptor(TextureBindGroupLayout))
    /\ pipeline' = {[julia_pipeline |-> Len(pipeline_cache) + 1,
                     texture_bind_group_layout |-> TextureBindGroupLayout]}

\* ComputeFractalPlugin::build: init the two resources, add the two systems.
build ==
    /\ pc = "Build"
    /\ extracted_fractals' = <<>>
    /\ IF pipeline = {} THEN from_world
       ELSE UNCHANGED <<pipeline, pipeline_cache>>
    /\ pc' = "Update"
    /\ UNCHANGED <<world, next_entity, shader_ok, gpu_images, bind_groups>>

\* The main world spawns an entity with a ComputeFractalComponent.
spawn ==
    /\ pc = "Update"
    /\ next_entity <= MaxEntities
    /\ \E c \in Components, v \in BOOLEAN :
          world' = Append(world, QueryRow(next_entity, c, v))
    /\ next_entity' = next_entity + 1
    /\ UNCHANGED <<shader_ok, pipeline_cache, pipeline, extracted_fractals,
                   gpu_images, bind_groups, pc>>

\* The main world despawns an entity.
despawn ==
    /\ pc = "Update"
    /\ \E i \in DOMAIN world :
          world' = SubSeq(world, 1, i - 1) \o SubSeq(world, i + 1, Len(world))
    /\ UNCHANGED <<next_entity, shader_ok, pipeline_cache, pipeline,
                   extracted_fractals, gpu_images, bind_groups, pc>>

\* A bug the snapshot could have: its entries alias the components, so a
\* write to a component shows in the entry extracted from it.
set_component_WritesThrough ==
    /\ pc = "Update"
    /\ \E i \in DOMAIN world, c \in Components :
          /\ c # world[i].fractal
          /\ world' = [world EXCEPT ![i].fractal = c]
          /\ extracted_fractals' =
                [k \in DOMAIN extracted_fractals |->
                    IF extracted_fractals[k].entity = world[i].entity
                    THEN [entity |-> world[i].entity,
                          fractal_type |-> c.fractal_type,
                          iterations |-> c.iterations,
                          output |-> c.output]
                    ELSE extracted_fractals[k]]
    /\ UNCHANGED <<next_entity, shader_ok, pipeline_cache, pipeline,
                   gpu_images, bind_groups, pc>>

\* The main world writes the public fields of a component.
set_component ==
    /\ pc = "Update"
    /\ \E i \in DOMAIN world, c \in Components :
          /\ c # world[i].fractal
          /\ world' = [world EXCEPT ![i].fractal = c]
    /\ UNCHANGED <<next_entity, shader_ok, pipeline_cache, pipeline,
                   extracted_fractals, gpu_images, bind_groups, pc>>

\* The main world's visibility systems change an entity's ComputedVisibility.
set_visibility ==
    /\ pc = "Update"
    /\ \E i \in DOMAIN world :
          world' = [world EXCEPT ![i].visibility = ~world[i].visibility]
    /\ UNCHANGED <<next_entity, shader_ok, pipeline_cache, pipeline,
                   extracted_fractals, gpu_images, bind_groups, pc>>

\* A bug the schedule could have: the frame goes on to its Queue stage
\* without extract_fractals having run.
extract_fractals_NotRun ==
    /\ pc = "Update"
    /\ pc' = "Prepare"
    /\ UNCHANGED <<world, next_entity, shader_ok, pipeline_cache, pipeline,
                   extracted_fractals, gpu_images, bind_groups>>

\* RenderStage::Extract: clear the last frame's fractals, push the visible ones.
extract_fractals ==
    /\ pc = "Update"
    /\ extracted_fractals' = ExtractLoop(world, clear(extracted_fractals))
    /\ pc' = "Prepare"
    /\ UNCHANGED <<world, next_entity, shader_ok, pipeline_cache, pipeline,
                   gpu_images, bind_groups>>

\* RenderStage::Prepare: the images uploaded to the GPU this frame.
prepare_assets ==
    /\ pc = "Prepare"
    /\ gpu_images' \in SUBSET Handles
    /\ pc' = "Queue"
    /\ UNCHANGED <<world, next_entity, shader_ok, pipeline_cache, pipeline,
                   extracted_fractals, bind_groups>>

\* A bug queue_fractals could have: the pipeline resource is built again by
\* every frame's queue step.
queue_fractals_Recompiles ==
    /\ pc = "Queue"
    /\ from_world
    /\ IF AllResolve(extracted_fractals, gpu_images)
       THEN /\ bind_groups' =
                  [inserted |-> TRUE,
                   values |-> QueueBindGroups(extracted_fractals,
                                              TextureBindGroupLayout, {})]
            /\ pc' = "Render"
       ELSE /\ pc' = "Panicked"
            /\ UNCHANGED bind_groups
    /\ UNCHANGED <<world, next_entity, shader_ok, extracted_fractals, gpu_images>>

\* A bug queue_fractals could have: the loop inserts into the map of the last
\* frame instead of a default one.
queue_fractals_KeepsOldMap ==
    /\ pc = "Queue"
    /\ IF AllResolve(extracted_fractals, gpu_images)
       THEN /\ \E p \in pipeline :
                  bind_groups' =
                     [inserted |-> TRUE,
                      values |-> QueueBindGroups(extracted_fractals,
                                                 p.texture_bind_group_layout,
                                                 bind_groups.values)]
            /\ pc' = "Render"
       ELSE /\ pc' = "Panicked"
            /\ UNCHANGED bind_groups
    /\ UNCHANGED <<world, next_entity, shader_ok, pipeline_cache, pipeline,
                   extracted_fractals, gpu_images>>

\* A bug queue_fractals could have: the loop drains the extracted fractals.
queue_fractals_DrainsSnapshot ==
    /\ pc = "Queue"
    /\ IF AllResolve(extracted_fractals, gpu_images)
       THEN /\ \E p \in pipeline :
                  bind_groups' =
                     [inserted |-> TRUE,
                      values |-> QueueBindGroups(extracted_fractals,
                                                 p.texture_bind_group_layout, {})]
            /\ extracted_fractals' = <<>>
            /\ pc' = "Render"
       ELSE /\ pc' = "Panicked"
            /\ UNCHANGED <<bind_groups, extracted_fractals>>
    /\ UNCHANGED <<world, next_entity, shader_ok, pipeline_cache, pipeline,
                   gpu_images>>

\* RenderStage::Queue: build the frame's bind groups and insert the resource;
\* indexing gpu_images with a handle it does not hold panics.
queue_fractals ==
    /\ pc = "Queue"
    /\ IF AllResolve(extracted_fractals, gpu_images)
       THEN /\ \E p \in pipeline :
                  bind_groups' =
                     [inserted |-> TRUE,
                      values |-> QueueBindGroups(extracted_fractals,
                                                 p.texture_bind_group_layout, {})]
            /\ pc' = "Render"
       ELSE /\ pc' = "Panicked"
            /\ UNCHANGED bind_groups
    /\ UNCHANGED <<world, next_entity, shader_ok, pipeline_cache, pipeline,
                   extracted_fractals, gpu_images>>

\* The rest of the render schedule; the next frame's update follows.
end_frame ==
    /\ pc = "Render"
    /\ pc' = "Update"
    /\ UNCHANGED <<world, next_entity, shader_ok, pipeline_cache, pipeline,
                   extracted_fractals, gpu_images, bind_groups>>

Next ==
    \/ build
    \/ spawn
    \/ despawn
    \/ set_component
    \/ set_visibility
    \/ extract_fractals
    \/ prepare_assets
    \/ queue_fractals
    \/ end_frame

Spec == Init /\ [][Next]_vars

----
\* The application of main.rs.  It schedules compute_fractal_system, which
\* fractal_system.rs does not define, and does not add ComputeFractalPlugin;
\* the system is taken to be the pipeline the specification describes: the
\* registry built once at startup, then extract and queue once per frame.

\* Whether prepare_camera has spawned the camera: an entity that carries no
\* ComputeFractalComponent, so it takes an id and is no row of the query.
CameraSpawned == next_entity - 1 > Len(world)

\* Startup system prepare_camera; the startup systems run in either order.
prepare_camera ==
    /\ pc = "Startup"
    /\ ~CameraSpawned
    /\ next_entity' = next_entity + 1
    /\ pc' = IF world # <<>> THEN "Update" ELSE "Startup"
    /\ UNCHANGED <<world, shader_ok, pipeline_cache, pipeline, extracted_fractals,
                   gpu_images, bind_groups>>

\* A bug prepare_fractal could have: the two Julia constants are swapped.
prepare_fractal_SwapsConstants ==
    /\ pc = "Startup"
    /\ world = <<>>
    /\ \E h \in Handles :
          world' = <<QueryRow(next_entity,
                              ComputeFractalComponent(Julia(55, -45), 100, h), TRUE)>>
    /\ next_entity' = next_entity + 1
    /\ pc' = IF CameraSpawned THEN "Update" ELSE "Startup"
    /\ UNCHANGED <<shader_ok, pipeline_cache, pipeline, extracted_fractals,
                   gpu_images, bind_groups>>

\* Startup system prepare_fractal: add the output image, spawn the one entity
\* with Julia(-0.45, 0.55), 100 iterations and the image's handle.
prepare_fractal ==
    /\ pc = "Startup"
    /\ world = <<>>
    /\ \E h \in Handles :
          world' = <<QueryRow(next_entity,
                              ComputeFractalComponent(Julia(-45, 55), 100, h), TRUE)>>
    /\ next_entity' = next_entity + 1
    /\ pc' = IF CameraSpawned THEN "Update" ELSE "Startup"
    /\ UNCHANGED <<shader_ok, pipeline_cache, pipeline, extracted_fractals,
                   gpu_images, bind_groups>>

\* What compute_fractal_system sets up at startup: the snapshot and the
\* pipeline registry.
compute_fractal_system_startup ==
    /\ extracted_fractals' = <<>>
    /\ from_world

\* What compute_fractal_system does in a frame: extract, then queue.
compute_fractal_system ==
    \/ extract_fractals
    \/ prepare_assets
    \/ queue_fractals
    \/ end_frame

\* main: build the app with the startup systems and compute_fractal_system.
main ==
    /\ pc = "Build"
    /\ compute_fractal_system_startup
    /\ pc' = "Startup"
    /\ UNCHANGED <<world, next_entity, shader_ok, gpu_images, bind_groups>>

NextMain ==
    \/ main
    \/ prepare_camera
    \/ prepare_fractal
    \/ compute_fractal_system

SpecMain == Init /\ [][NextMain]_vars

----
\* Vocabulary of the properties below.

\* The stages of a frame in which the snapshot is the one extracted from the
\* main world as it stands (the main world is only written in "Update").
AfterExtract == pc \in {"Prepare", "Queue", "Render", "Panicked"}

SnapshotEntities == {extracted_fractals[i].entity : i \in DOMAIN extracted_fractals}

VisibleRows == {j \in DOMAIN world : world[j].visibility}

\* The snapshot entry a row of the main world yields.
EntryOf(row) ==
    [entity |-> row.entity,
     fractal_type |-> row.fractal.fractal_type,
     iterations |-> row.fractal.iterations,
     output |-> row.fractal.output]

\* The queue step is taken: the schedule leaves the Queue stage.
QueueStep == pc = "Queue" /\ pc' # "Queue"

----
\* C1: after extract_fractals has run in a frame, the snapshot holds no entry
\* for a request whose visibility flag is false at that extraction, whatever
\* frames, visibility changes, spawns and despawns came before.
C1_InvisibleNeverInSnapshot ==
    AfterExtract =>
        \A j \in DOMAIN world :
            ~world[j].visibility => world[j].entity \notin SnapshotEntities

\* A request that had a bind group in an earlier frame is now hidden, while the
\* snapshot just extracted holds another request.
C1_Witness ==
    /\ pc = "Prepare"
    /\ extracted_fractals # <<>>
    /\ \E j \in DOMAIN world :
          /\ ~world[j].visibility
          /\ world[j].entity \in Keys(bind_groups.values)

\* C2: after extract_fractals the snapshot holds exactly the visible requests,
\* one entry each, and each entry carries the entity, fractal_type, iterations
\* and output its request has at that moment.
C2_SnapshotIsVisibleRequests ==
    AfterExtract =>
        /\ \A j \in VisibleRows :
              \E i \in DOMAIN extracted_fractals : extracted_fractals[i] = EntryOf(world[j])
        /\ \A i \in DOMAIN extracted_fractals :
              \E j \in VisibleRows : extracted_fractals[i] = EntryOf(world[j])
        /\ Len(extracted_fractals) = Cardinality(VisibleRows)

\* A visible request with iterations = 0 was extracted after its component
\* changed: the bind group of the earlier frame was built for another output.
C2_Witness ==
    /\ pc = "Prepare"
    /\ \E j \in VisibleRows :
          /\ world[j].fractal.iterations = 0
          /\ \E p \in bind_groups.values :
                /\ p.key = world[j].entity
                /\ p.value.resource # TextureView(world[j].fractal.output)

\* C3: once queue_fractals has published a frame's bind groups, the map holds
\* one bind group for each request that is visible and whose output resolves
\* to a GPU image, keyed by its entity, no key twice and no other key.
C3_BindGroupsAreVisibleResolvable ==
    pc = "Render" =>
        /\ bind_groups.inserted
        /\ Keys(bind_groups.values) =
              {world[j].entity :
                  j \in {k \in VisibleRows : world[k].fractal.output \in gpu_images}}
        /\ Cardinality(bind_groups.values) = Cardinality(Keys(bind_groups.values))

\* A visible request got its bind group while a hidden request, whose output
\* has no GPU image, got none.
C3_Witness ==
    /\ pc = "Render"
    /\ Cardinality(Keys(bind_groups.values)) >= 1
    /\ \E j \in DOMAIN world :
          /\ ~world[j].visibility
          /\ world[j].fractal.output \notin gpu_images
          /\ world[j].entity \notin Keys(bind_groups.values)

\* C4: a snapshot entry whose output has no GPU image is skipped: the queue
\* step does not abort, and the published map holds exactly the entries whose
\* output resolves.
C4_UnresolvedEntrySkipped ==
    /\ pc # "Panicked"
    /\ pc = "Render" =>
          Keys(bind_groups.values) =
             {extracted_fractals[i].entity :
                 i \in {k \in DOMAIN extracted_fractals :
                           extracted_fractals[k].output \in gpu_images}}

\* C5: a frame whose snapshot holds a request with no GPU image yet completes
\* without a bind group for it, and the queue step of a frame in which the
\* image is there gives it a bind group.
C5_BindGroupAfterUpload ==
    [][QueueStep =>
          /\ pc' = "Render"
          /\ \A i \in DOMAIN extracted_fractals :
                (extracted_fractals[i].entity \in Keys(bind_groups'.values))
                   <=> (extracted_fractals[i].output \in gpu_images)]_vars

\* C6: a request that had a bind group in frame N and is hidden in frame N+1
\* is absent from frame N+1's snapshot and from the bind groups frame N+1
\* publishes, and frame N+1's queue step raises no error.
C6_HiddenRequestLeaves ==
    [][QueueStep =>
          \A j \in DOMAIN world :
             (~world[j].visibility /\ world[j].entity \in Keys(bind_groups.values)) =>
                /\ world[j].entity \notin SnapshotEntities
                /\ pc' = "Render"
                /\ world[j].entity \notin Keys(bind_groups'.values)]_vars

\* C7: no request has iterations = 0 (it is rejected when created), and every
\* snapshot entry has iterations > 0.
C7_IterationsPositive ==
    /\ \A j \in DOMAIN world : world[j].fractal.iterations > 0
    /\ \A i \in DOMAIN extracted_fractals : extracted_fractals[i].iterations > 0

\* C8: the julia pipeline is queued on the pipeline cache once for the life
\* of the render app: after build the cache holds the one descriptor, and the
\* resource names it in every frame.
C8_PipelineQueuedOnce ==
    /\ Len(pipeline_cache) <= 1
    /\ pc # "Build" =>
          /\ pipeline_cache = <<JuliaPipelineDescriptor(TextureBindGroupLayout)>>
          /\ \A p \in pipeline : p.julia_pipeline = 1
          /\ Cardinality(pipeline) = 1

\* A second frame reaches its queue step, with requests to bind, after an
\* earlier frame published bind groups.
C8_Witness ==
    /\ pc = "Queue"
    /\ bind_groups.inserted
    /\ bind_groups.values # {}
    /\ extracted_fractals # <<>>

\* C9: in a published frame, two visible requests of the same fractal_type
\* with different outputs have two entries, each binding its own request's
\* view at binding 0 with the registry's one layout, and the registry holds
\* one pipeline handle.
C9_SameKindDistinctBindGroups ==
    pc = "Render" =>
        \A j, k \in VisibleRows :
            (/\ j # k
             /\ world[j].fractal.fractal_type = world[k].fractal.fractal_type
             /\ world[j].fractal.output # world[k].fractal.output) =>
                /\ Len(pipeline_cache) = 1
                /\ \E p \in pipeline, bj, bk \in bind_groups.values :
                      /\ bj # bk
                      /\ bj.key = world[j].entity
                      /\ bk.key = world[k].entity
                      /\ bj.value = [layout |-> p.texture_bind_group_layout,
                                     binding |-> 0,
                                     resource |-> TextureView(world[j].fractal.output)]
                      /\ bk.value = [layout |-> p.texture_bind_group_layout,
                                     binding |-> 0,
                                     resource |-> TextureView(world[k].fractal.output)]
                      /\ \A b \in bind_groups.values :
                            b.key \in {bj.key, bk.key} => b \in {bj, bk}

\* A frame published bind groups for two visible requests of one fractal_type
\* and different outputs.
C9_Witness ==
    /\ pc = "Render"
    /\ \E j, k \in VisibleRows :
          /\ j # k
          /\ world[j].fractal.fractal_type = world[k].fractal.fractal_type
          /\ world[j].fractal.output # world[k].fractal.output

\* C10: when the shader cannot be found or compiled, building the pipeline
\* resource fails: the resource is never there and no frame's stages run.
C10_ShaderErrorFailsBuild ==
    ~shader_ok => (pipeline = {} /\ ~AfterExtract)

----
----
\* The entities of the main world, and those it has despawned.
LiveEntities == {world[j].entity : j \in DOMAIN world}

DespawnedEntities == (1..(next_entity - 1)) \ LiveEntities

\* C12: a request despawned before a frame has no entry in that frame's
\* snapshot and no bind group in the map that frame publishes, with nothing
\* called but the frame's own extract and queue steps.
C12_DespawnedRequestLeaves ==
    /\ AfterExtract => SnapshotEntities \cap DespawnedEntities = {}
    /\ pc = "Render" => Keys(bind_groups.values) \cap DespawnedEntities = {}

\* A request that had a bind group in the last frame was despawned, and the
\* snapshot just extracted has no entry for it.
C12_Witness ==
    /\ pc = "Prepare"
    /\ \E e \in DespawnedEntities :
          /\ e \in Keys(bind_groups.values)
          /\ e \notin SnapshotEntities

\* C13: the map a frame publishes has keys only for entries of that frame's
\* snapshot, so nothing of an earlier frame's map survives; a frame with an
\* empty snapshot publishes an empty map.
C13_BindGroupsRebuiltEachFrame ==
    pc = "Render" =>
        /\ Keys(bind_groups.values) \subseteq SnapshotEntities
        /\ extracted_fractals = <<>> => bind_groups.values = {}

\* A frame published an empty map while the main world holds requests, none
\* of them visible.
C13_Witness ==
    /\ pc = "Render"
    /\ extracted_fractals = <<>>
    /\ bind_groups.values = {}
    /\ world # <<>>

\* C14: the stages of a frame run in order: the pipeline resource is there in
\* every stage of a frame, the snapshot the Queue stage finds is the one
\* extracted from the main world in this frame, and the map the frame
\* publishes is built from that snapshot.
C14_StagesInOrder ==
    /\ AfterExtract => pipeline # {}
    /\ pc \in {"Queue", "Render", "Panicked"} =>
          /\ Len(extracted_fractals) = Cardinality(VisibleRows)
          /\ \A j \in VisibleRows :
                \E i \in DOMAIN extracted_fractals :
                   extracted_fractals[i] = EntryOf(world[j])
    /\ pc = "Render" =>
          \A i \in DOMAIN extracted_fractals :
             \E b \in bind_groups.values :
                /\ b.key = extracted_fractals[i].entity
                /\ b.value.resource = TextureView(extracted_fractals[i].output)

\* A frame after the first is in its Queue stage with a snapshot that is not
\* the one the last frame's map was built from.
C14_Witness ==
    /\ pc = "Queue"
    /\ bind_groups.inserted
    /\ Keys(bind_groups.values) # SnapshotEntities

\* C15: a step that writes the main world is a step of the update, and it
\* leaves the snapshot and the published bind groups as they are; no such
\* step is taken while a frame's stages run.
C15_SnapshotIsolated ==
    [][world' # world =>
          /\ pc = "Update"
          /\ pc' = "Update"
          /\ extracted_fractals' = extracted_fractals
          /\ bind_groups' = bind_groups]_vars

\* After a frame, the main world has written a component whose entry is in
\* the snapshot: the entry still has the values that were extracted.
C15_Witness ==
    /\ pc = "Update"
    /\ \E i \in DOMAIN extracted_fractals, j \in DOMAIN world :
          /\ world[j].entity = extracted_fractals[i].entity
          /\ extracted_fractals[i] # EntryOf(world[j])
          /\ extracted_fractals[i].entity \in Keys(bind_groups.values)

\* C16: the snapshot is written by the extract step only and the bind groups
\* by the queue step's publishing only: the queue step leaves the snapshot
\* and the extract step leaves the bind groups as they are.
C16_WrittenOncePerFrame ==
    [][/\ extracted_fractals' # extracted_fractals =>
             (pc = "Update" /\ pc' = "Prepare" /\ bind_groups' = bind_groups)
       /\ bind_groups' # bind_groups =>
             (pc = "Queue" /\ pc' = "Render"
              /\ extracted_fractals' = extracted_fractals)]_vars

\* A queue step has published bind groups for a snapshot of two entries, and
\* the snapshot is still there.
C16_Witness ==
    /\ pc = "Render"
    /\ Len(extracted_fractals) = 2
    /\ Cardinality(bind_groups.values) = 2

\* C17: once built, the pipeline resource keeps its julia_pipeline id and
\* its layout whatever the frames and the main world do, and every bind group
\* is made with that layout and binds slot 0.
C17_RegistryUnchangedByFrames ==
    /\ pc # "Build" =>
          pipeline = {[julia_pipeline |-> 1,
                       texture_bind_group_layout |-> TextureBindGroupLayout]}
    /\ \A b \in bind_groups.values :
          /\ b.value.binding = 0
          /\ \A p \in pipeline :
                /\ b.value.layout = p.texture_bind_group_layout
                /\ p.texture_bind_group_layout.binding = b.value.binding

\* Requests came, were bound in a frame and were all despawned.
C17_Witness ==
    /\ pc = "Update"
    /\ bind_groups.values # {}
    /\ world = <<>>

\* The visible rows of the main world, in its iteration order.
VisibleInOrder == SelectSeq(world, LAMBDA row : row.visibility)

\* C18: after extract_fractals the snapshot lists the visible requests in
\* the iteration order of the main world; it is a function of the main world
\* alone, so extracting again from an unchanged world gives the same
\* snapshot whatever the snapshot was before.
C18_ExtractionDeterministic ==
    AfterExtract =>
        extracted_fractals =
           [i \in 1..Len(VisibleInOrder) |-> EntryOf(VisibleInOrder[i])]

\* A frame after the first extracted two visible requests, in the order of
\* the main world, over a snapshot of another length.
C18_Witness ==
    /\ pc = "Prepare"
    /\ bind_groups.inserted
    /\ Cardinality(bind_groups.values) # 2
    /\ Len(extracted_fractals) = 2
    /\ extracted_fractals[1].entity = world[1].entity
    /\ extracted_fractals[2].entity = world[2].entity

\* In a state, no entity has two entries in the snapshot.
NoDuplicateEntries ==
    \A i, k \in DOMAIN extracted_fractals :
       extracted_fractals[i].entity = extracted_fractals[k].entity => i = k

\* C19 as stated: in every reachable state no entity is twice in the snapshot
\* and the snapshot is no longer than the number of live requests, and a
\* published map has as many bind groups as the snapshot has entries.
C19_AsStated ==
    /\ NoDuplicateEntries
    /\ Len(extracted_fractals) <= Len(world)
    /\ pc = "Render" => Cardinality(bind_groups.values) = Len(extracted_fractals)

\* C19 as amended: in every reachable state no entity is twice in the
\* snapshot; from a frame's extract step to the end of that frame the snapshot
\* is no longer than the number of live requests; a published map has as many
\* bind groups, one per key, as the snapshot has entries.
C19_SnapshotEntriesUnique ==
    /\ NoDuplicateEntries
    /\ AfterExtract => Len(extracted_fractals) <= Len(world)
    /\ pc = "Render" =>
          /\ Cardinality(bind_groups.values) = Len(extracted_fractals)
          /\ Cardinality(Keys(bind_groups.values)) = Len(extracted_fractals)

\* A frame published one bind group per entry of a snapshot of two entries
\* that share one output.
C19_Witness ==
    /\ pc = "Render"
    /\ Len(extracted_fractals) = 2
    /\ extracted_fractals[1].output = extracted_fractals[2].output
    /\ Cardinality(Keys(bind_groups.values)) = 2

====
